---------------------------- MODULE Spec2Model ----------------------------
(***************************************************************************)
(* A model of clean.py, the cleaning pipeline of the real-estate tables.   *)
(*                                                                         *)
(* A DataFrame is a record [index, columns, data]: the row labels, the     *)
(* column labels in order, and one row (a function from column label to    *)
(* cell) per position.  A cell is a number (an exact fraction num/den), a  *)
(* missing value (NaN) or a text (a sequence of code points).              *)
(***************************************************************************)
EXTENDS Integers, Sequences, FiniteSets, TLC

VARIABLES
    pc,                 \* the statement the run is at
    exc,                \* the exception that ended the run ("" while none)
    stages,             \* the functions entered so far, in order
    df_train, df_test, df_macro,            \* lines 151, 152, 159
    df_train_lat_lon, df_test_lat_lon,      \* lines 153-158
    df_train_clean, df_test_clean, df_macro_clean,   \* lines 162-164
    files,              \* the file store: path -> content written
    arg,                \* the argument of the function under study
    ret,                \* its latest result
    prev,               \* the result before the latest
    calls               \* how often it has been applied

vars == <<pc, exc, stages, df_train, df_test, df_macro, df_train_lat_lon,
          df_test_lat_lon, df_train_clean, df_test_clean, df_macro_clean,
          files, arg, ret, prev, calls>>

----------------------------------------------------------------------------
(* Bounds of the model. *)

MaxRows == 3

----------------------------------------------------------------------------
(* Cells: numbers as exact fractions, NaN, text. *)

Abs(n) == IF n < 0 THEN -n ELSE n

RECURSIVE GCD(_, _)
GCD(a, b) == IF b = 0 THEN a ELSE GCD(b, a % b)

Frac(n, d) ==
    LET g == GCD(Abs(n), Abs(d))
        sgn == IF d < 0 THEN -1 ELSE 1
    IN  [tag |-> "num", num |-> sgn * (n \div g), den |-> sgn * (d \div g), s |-> <<>>]

Num(n) == [tag |-> "num", num |-> n, den |-> 1, s |-> <<>>]

NaN == [tag |-> "nan", num |-> 0, den |-> 1, s |-> <<>>]

Text(s) == [tag |-> "str", num |-> 0, den |-> 1, s |-> s]

IsNum(c) == c.tag = "num"

IsNaN(c) == c.tag = "nan"

(* numpy/pandas comparisons: any comparison with NaN is False. *)
Gt(a, b) == IsNum(a) /\ IsNum(b) /\ a.num * b.den > b.num * a.den

Lt(a, b) == Gt(b, a)

Le(a, b) == IsNum(a) /\ IsNum(b) /\ a.num * b.den <= b.num * a.den

Eq(a, b) == IsNum(a) /\ IsNum(b) /\ a.num * b.den = b.num * a.den

FAdd(a, b) == Frac(a.num * b.den + b.num * a.den, a.den * b.den)

FSub(a, b) == Frac(a.num * b.den - b.num * a.den, a.den * b.den)

FMul(a, b) == Frac(a.num * b.num, a.den * b.den)

----------------------------------------------------------------------------
(* DataFrames. *)

Range(s) == {s[i] : i \in DOMAIN s}

RECURSIVE Pick(_, _, _)
Pick(s, keep, i) ==
    IF i > Len(s) THEN <<>>
    ELSE (IF i \in keep THEN <<s[i]>> ELSE <<>>) \o Pick(s, keep, i + 1)

Frame(index, columns, data) == [index |-> index, columns |-> columns, data |-> data]

NoFrame == Frame(<<>>, <<>>, <<>>)

NRows(df) == Len(df.index)

(* The row labels a frame built from an array carries: 0 .. n-1. *)
RangeIndex(n) == [i \in 1..n |-> i - 1]

Column(df, c) == [i \in 1..NRows(df) |-> df.data[i][c]]

(* df.drop(labels): every row carrying one of the labels goes. *)
DropFirstOnly(df, labels) ==
    LET hit  == {i \in 1..NRows(df) : df.index[i] \in labels}
        gone == IF hit = {} THEN {} ELSE {CHOOSE i \in hit : \A j \in hit : i <= j}
        keep == (1..NRows(df)) \ gone
    IN  [df EXCEPT !.index = Pick(@, keep, 1), !.data = Pick(@, keep, 1)]

Drop(df, labels) ==
    LET keep == {i \in 1..NRows(df) : df.index[i] \notin labels}
    IN  [df EXCEPT !.index = Pick(@, keep, 1), !.data = Pick(@, keep, 1)]

Rows(df) == 1..NRows(df)

(* df[mask].index: the labels of the rows (positions) the mask selects. *)
Labels(df, mask) == {df.index[i] : i \in mask}

(* df[col].loc[mask] = value, on the rows the mask selects. *)
SetWhere(df, col, mask, value) ==
    [df EXCEPT !.data = [i \in Rows(df) |->
        IF i \in mask THEN [df.data[i] EXCEPT ![col] = value] ELSE df.data[i]]]

----------------------------------------------------------------------------
(* handle_bad_data, lines 78-118. *)

ERR_FULL_SQ == 5326

MIN_BUILD_YEAR == 1691

MAX_BUILD_YEAR == 2018

MAX_MAX_FLOOR == 57

ERR_STATE == 33

ERR_BUILD_YEAR == 20052009

FIX_BUILD_YEAR == 2007

LifeSqExceeds(r) == Gt(r["life_sq"], r["full_sq"])

KitchSqExceeds(r) == Gt(r["kitch_sq"], r["full_sq"])

FullSqOutlier(r) == Eq(r["full_sq"], Num(ERR_FULL_SQ))

BuildYearTooOldStrict(r) == Lt(r["build_year"], Num(MIN_BUILD_YEAR))

BuildYearTooOld(r) == Le(r["build_year"], Num(MIN_BUILD_YEAR))

BuildYearTooNew(r) == Gt(r["build_year"], Num(MAX_BUILD_YEAR))

MaxFloorTooHigh(r) == Gt(r["max_floor"], Num(MAX_MAX_FLOOR))

FloorExceeds(r) == Gt(r["floor"], r["max_floor"])

FullSqZero(r) == Eq(r["full_sq"], Num(0))

FullSqOne(r) == Eq(r["full_sq"], Num(1))

MaxFloorZero(r) == Eq(r["max_floor"], Num(0))

ChildrenPreschoolNegative(r) == Lt(r["children_preschool"], Num(0))

PreschoolQuotaNegative(r) == Lt(r["preschool_quota"], Num(0))

ChildrenSchoolNegative(r) == Lt(r["children_school"], Num(0))

SchoolQuotaNegative(r) == Lt(r["school_quota"], Num(0))

(* Lines 81-108: one removal per line, df.drop(df[condition].index).        *)
DropLifeSqExceeds(df) ==
    Drop(df, Labels(df, {i \in Rows(df) : LifeSqExceeds(df.data[i])}))

DropKitchSqExceeds(df) ==
    Drop(df, Labels(df, {i \in Rows(df) : KitchSqExceeds(df.data[i])}))

DropFullSqOutlier(df) ==
    Drop(df, Labels(df, {i \in Rows(df) : FullSqOutlier(df.data[i])}))

DropBuildYearTooOld(df) ==
    Drop(df, Labels(df, {i \in Rows(df) : BuildYearTooOld(df.data[i])}))

DropBuildYearTooNew(df) ==
    Drop(df, Labels(df, {i \in Rows(df) : BuildYearTooNew(df.data[i])}))

DropMaxFloorTooHigh(df) ==
    Drop(df, Labels(df, {i \in Rows(df) : MaxFloorTooHigh(df.data[i])}))

DropFloorExceeds(df) ==
    Drop(df, Labels(df, {i \in Rows(df) : FloorExceeds(df.data[i])}))

DropFullSqZero(df) ==
    Drop(df, Labels(df, {i \in Rows(df) : FullSqZero(df.data[i])}))

DropFullSqOne(df) ==
    Drop(df, Labels(df, {i \in Rows(df) : FullSqOne(df.data[i])}))

DropMaxFloorZero(df) ==
    Drop(df, Labels(df, {i \in Rows(df) : MaxFloorZero(df.data[i])}))

DropChildrenPreschoolNegative(df) ==
    Drop(df, Labels(df, {i \in Rows(df) : ChildrenPreschoolNegative(df.data[i])}))

DropPreschoolQuotaNegative(df) ==
    Drop(df, Labels(df, {i \in Rows(df) : PreschoolQuotaNegative(df.data[i])}))

DropChildrenSchoolNegative(df) ==
    Drop(df, Labels(df, {i \in Rows(df) : ChildrenSchoolNegative(df.data[i])}))

DropSchoolQuotaNegative(df) ==
    Drop(df, Labels(df, {i \in Rows(df) : SchoolQuotaNegative(df.data[i])}))

(* The fourteen removals, each on the result of the one before. *)
Removals(df) ==
    DropSchoolQuotaNegative(
     DropChildrenSchoolNegative(
      DropPreschoolQuotaNegative(
       DropChildrenPreschoolNegative(
        DropMaxFloorZero(
         DropFullSqOne(
          DropFullSqZero(
           DropFloorExceeds(
            DropMaxFloorTooHigh(
             DropBuildYearTooNew(
              DropBuildYearTooOld(
               DropFullSqOutlier(
                DropKitchSqExceeds(
                 DropLifeSqExceeds(
                  df))))))))))))))

(* scipy.stats.mode: the most frequent value, the smallest of them on a tie. *)
Occurrences(vals, v) == Cardinality({i \in DOMAIN vals : vals[i] = v})

Mode(vals) ==
    CHOOSE v \in Range(vals) : \A w \in Range(vals) :
        \/ Occurrences(vals, v) > Occurrences(vals, w)
        \/ Occurrences(vals, v) = Occurrences(vals, w) /\ Le(v, w)

StateIsErr(r) == Eq(r["state"], Num(ERR_STATE))

BuildYearIsErr(r) == Eq(r["build_year"], Num(ERR_BUILD_YEAR))

(* Line 112: stats.mode(...)[0][0] of an empty column is an IndexError. *)
handle_bad_data_raises(df) == NRows(Removals(df)) = 0

(* Line 112: state 33 becomes the mode of the state column. *)
RepairState(df) ==
    SetWhere(df, "state", {i \in Rows(df) : StateIsErr(df.data[i])},
             Mode(Column(df, "state")))

(* Line 116: build_year 20052009 becomes 2007. *)
RepairBuildYear(df) ==
    SetWhere(df, "build_year", {i \in Rows(df) : BuildYearIsErr(df.data[i])},
             Num(FIX_BUILD_YEAR))

(* Lines 78-118: the removals, then the two repairs on the rows that survived. *)
handle_bad_data(df) == RepairBuildYear(RepairState(Removals(df)))

----------------------------------------------------------------------------
(* correct_lon_lat, lines 16-20. *)

HasColumn(df, c) == c \in Range(df.columns)

(* Series alignment: the value ref carries at label k, NaN when it has none. *)
Lookup(ref, k, c) ==
    IF \E i \in Rows(ref) : ref.index[i] = k
    THEN ref.data[CHOOSE i \in Rows(ref) : ref.index[i] = k][c]
    ELSE NaN

(* df[c] = values: an existing column is overwritten in place, a new one is *)
(* appended as the last column.                                            *)
SetColumn(df, c, values) ==
    [df EXCEPT
        !.columns = IF HasColumn(df, c) THEN @ ELSE Append(@, c),
        !.data = [i \in Rows(df) |->
            [k \in DOMAIN df.data[i] \cup {c} |->
                IF k = c THEN values[i] ELSE df.data[i][k]]]]

(* df.drop(c, axis=1) *)
DropColumn(df, c) ==
    [df EXCEPT
        !.columns = Pick(@, {i \in 1..Len(@) : @[i] # c}, 1),
        !.data = [i \in Rows(df) |-> [k \in DOMAIN df.data[i] \ {c} |-> df.data[i][k]]]]

correct_lon_lat(df, ref_df) ==
    LET d1 == SetColumn(df, "lon", [i \in Rows(df) |-> Lookup(ref_df, df.index[i], "lon")])
    IN  SetColumn(d1, "lat", [i \in Rows(d1) |-> Lookup(ref_df, d1.index[i], "lat")])

----------------------------------------------------------------------------
(* truncate_extreme_values, lines 23-42. *)

(* Line 25: (column, high percentile, low percentile), the percentiles in   *)
(* tenths of a percent.                                                    *)
cols == << <<"price_doc", 995, 5>>, <<"full_sq", 995, 5>>, <<"life_sq", 950, 50>> >>

SENTINEL == -99

(* Python objects as far as line 27 compares them: a str and a tuple.      *)
PyStr(s) == [type |-> "str", items |-> <<s>>]

PyTuple(t) == [type |-> "tuple", items |-> t]

(* Python ==: objects of different types are unequal. *)
PyEq(a, b) == a.type = b.type /\ a.items = b.items

(* key in df.columns (Index.__contains__): is the key one of the labels.   *)
InColumns(key, df) == \E i \in 1..Len(df.columns) : PyEq(PyStr(df.columns[i]), key)

RECURSIVE Insert(_, _)
Insert(c, s) ==
    IF s = <<>> THEN <<c>>
    ELSE IF Le(c, Head(s)) THEN <<c>> \o s
    ELSE <<Head(s)>> \o Insert(c, Tail(s))

RECURSIVE SortNum(_)
SortNum(s) == IF s = <<>> THEN <<>> ELSE Insert(Head(s), SortNum(Tail(s)))

(* np.percentile(a, q), linear interpolation between order statistics; q10 *)
(* is q in tenths of a percent.  NaN when a holds a NaN or nothing.        *)
Percentile(a, q10) ==
    IF a = <<>> \/ \E i \in DOMAIN a : IsNaN(a[i]) THEN NaN
    ELSE LET sorted == SortNum(a)
             pos == q10 * (Len(a) - 1)
             lo  == pos \div 1000
             rem == pos % 1000
         IN  IF rem = 0 THEN sorted[lo + 1]
             ELSE FAdd(sorted[lo + 1],
                       FMul(Frac(rem, 1000), FSub(sorted[lo + 2], sorted[lo + 1])))

(* np.delete(col_values, np.where(col_values == -99)) *)
WithoutSentinel(col_values) ==
    Pick(col_values, {i \in DOMAIN col_values : ~Eq(col_values[i], Num(SENTINEL))}, 1)

(* Lines 28-36, for one entry of cols. *)
TruncateColumn(df, col) ==
    LET col_values  == Column(df, col[1])
        upper_limit == Percentile(WithoutSentinel(col_values), col[2])
        lower_limit == Percentile(WithoutSentinel(col_values), col[3])
        d1 == SetWhere(df, col[1],
                       {i \in Rows(df) : Gt(df.data[i][col[1]], upper_limit)}, upper_limit)
    IN  SetWhere(d1, col[1],
                 {i \in Rows(d1) : Lt(d1.data[i][col[1]], lower_limit)}, lower_limit)

(* Lines 26-27: the loop over cols; the membership test is on the tuple.   *)
RECURSIVE TruncateFrom(_, _)
TruncateFrom(df, k) ==
    IF k > Len(cols) THEN df
    ELSE TruncateFrom(IF InColumns(PyTuple(cols[k]), df)
                      THEN TruncateColumn(df, cols[k])
                      ELSE df,
                      k + 1)

truncate_extreme_values(df) == TruncateFrom(df, 1)

----------------------------------------------------------------------------
(* convert_categorical_to_numerical, lines 45-54. *)

(* "nan", the text numpy's astype("str") gives a missing value. *)
NAN_STR == <<110, 97, 110>>

(* values.astype("str") on a cell of an object column read from CSV: a text *)
(* stays, a missing value becomes "nan".                                   *)
AsStr(c) == CASE c.tag = "str" -> c.s [] c.tag = "nan" -> NAN_STR

(* df[f].dtype == "object": the column holds text. *)
IsObject(df, f) == \E i \in Rows(df) : df.data[i][f].tag = "str"

(* The order of numpy's unicode strings: by code point, a prefix first.    *)
RECURSIVE LexLess(_, _)
LexLess(a, b) ==
    IF b = <<>> THEN FALSE
    ELSE IF a = <<>> THEN TRUE
    ELSE IF Head(a) # Head(b) THEN Head(a) < Head(b)
    ELSE LexLess(Tail(a), Tail(b))

RECURSIVE FirstSeen(_, _)
FirstSeen(strs, seen) ==
    IF strs = <<>> THEN <<>>
    ELSE IF Head(strs) \in seen THEN FirstSeen(Tail(strs), seen)
    ELSE <<Head(strs)>> \o FirstSeen(Tail(strs), seen \cup {Head(strs)})

(* The classes in the order of first appearance. *)
ClassesUnsorted(strs) == FirstSeen(strs, {})

RECURSIVE SortTexts(_)
SortTexts(S) ==
    IF S = {} THEN <<>>
    ELSE LET least == CHOOSE x \in S : \A y \in S \ {x} : LexLess(x, y)
         IN  <<least>> \o SortTexts(S \ {least})

(* LabelEncoder.fit: classes_ = np.unique(y), sorted and without repeats.  *)
Classes(strs) == SortTexts(Range(strs))

(* LabelEncoder.transform: the position of the value among the classes.    *)
Transform(classes, str) == (CHOOSE k \in 1..Len(classes) : classes[k] = str) - 1

(* Lines 50-53, for one column. *)
EncodeColumn(df, f) ==
    LET strs == [i \in Rows(df) |-> AsStr(df.data[i][f])]
        classes == Classes(strs \o strs)
    IN  SetColumn(df, f, [i \in Rows(df) |-> Num(Transform(classes, strs[i]))])

(* Lines 48-49: the loop over the columns. *)
RECURSIVE EncodeFrom(_, _)
EncodeFrom(df, k) ==
    IF k > Len(df.columns) THEN df
    ELSE EncodeFrom(IF IsObject(df, df.columns[k]) /\ df.columns[k] # "timestamp"
                    THEN EncodeColumn(df, df.columns[k])
                    ELSE df,
                    k + 1)

convert_categorical_to_numerical(df) == EncodeFrom(df, 1)

----------------------------------------------------------------------------
(* impute_missing_values_data and impute_missing_values_macro, lines 57-75, *)
(* with sklearn's KNNImputer(n_neighbors=5): uniform weights, the          *)
(* nan-euclidean metric.                                                   *)

n_neighbors == 5

(* The sum of f over the set S of its arguments. *)
RECURSIVE SumFn(_, _)
SumFn(f, S) ==
    IF S = {} THEN Num(0)
    ELSE LET x == CHOOSE y \in S : TRUE
         IN  FAdd(f[x], SumFn(f, S \ {x}))

(* The mean of column c of X over the rows in S. *)
MeanOver(X, c, S) == FMul(SumFn([d \in S |-> X[d][c]], S), Frac(1, Cardinality(S)))

(* The squared nan-euclidean distance of two rows: over the columns both   *)
(* hold a value in, scaled by the share of such columns; NaN with none.    *)
SqDist(x, y, features) ==
    LET both == {c \in Range(features) : IsNum(x[c]) /\ IsNum(y[c])}
        sq   == [c \in both |-> FMul(FSub(x[c], y[c]), FSub(x[c], y[c]))]
    IN  IF both = {} THEN NaN
        ELSE FMul(Frac(Len(features), Cardinality(both)), SumFn(sq, both))

(* The value KNNImputer gives the missing cell (row r, column c) of X: the *)
(* mean of c over the nearest donors (the rows holding c), over all donors *)
(* when r is comparable with none of them.                                 *)
Imputed(X, features, r, c) ==
    LET donors  == {d \in DOMAIN X : IsNum(X[d][c])}
        dist    == [d \in donors |-> SqDist(X[r], X[d], features)]
        near    == {d \in donors : IsNum(dist[d])}
        k       == IF Cardinality(donors) < n_neighbors
                   THEN Cardinality(donors) ELSE n_neighbors
        chosen  == IF Cardinality(donors) <= k THEN donors
                   ELSE CHOOSE S \in SUBSET donors :
                          /\ Cardinality(S) = k
                          /\ \A a \in S, b \in donors \ S :
                                \/ IsNaN(dist[b])
                                \/ IsNum(dist[a]) /\ Le(dist[a], dist[b])
    IN  IF near = {} THEN MeanOver(X, c, donors)
        ELSE MeanOver(X, c, chosen \cap near)

(* imputer.fit_transform(df) raises: no row, text in a column. *)
KNNRaises(df) ==
    \/ NRows(df) = 0
    \/ \E i \in Rows(df), c \in Range(df.columns) : df.data[i][c].tag = "str"

(* The columns fit_transform returns: those with a value in some row.      *)
ValidColumns(df) ==
    Pick(df.columns,
         {k \in 1..Len(df.columns) : \E i \in Rows(df) : IsNum(df.data[i][df.columns[k]])}, 1)

(* imputer.fit_transform(df): the rows with every missing cell filled.     *)
fit_transform(df) ==
    [i \in Rows(df) |->
        [c \in Range(ValidColumns(df)) |->
            IF IsNaN(df.data[i][c])
            THEN Imputed(df.data, ValidColumns(df), i, c)
            ELSE df.data[i][c]]]

(* pd.DataFrame(values, columns=df.columns) raises when the imputer        *)
(* returned fewer columns than df has (a column with no value at all).     *)
impute_raises(df) == KNNRaises(df) \/ ValidColumns(df) # df.columns

(* Lines 60-65. *)
impute_missing_values_data(df) ==
    LET df_cp == df
        d1 == DropColumn(df, "timestamp")
        d2 == Frame(RangeIndex(NRows(d1)), d1.columns, fit_transform(d1))
    IN  SetColumn(d2, "timestamp", Column(df_cp, "timestamp"))

impute_missing_values_data_raises(df) ==
    ~HasColumn(df, "timestamp") \/ impute_raises(DropColumn(df, "timestamp"))

(* Lines 71-75. *)
impute_missing_values_macro(df) ==
    LET df_cp == df
        d1 == Frame(RangeIndex(NRows(df)), df.columns, fit_transform(df))
    IN  [d1 EXCEPT !.index = df_cp.index]

----------------------------------------------------------------------------
(* The Rule-Based Filter on its own: handle_bad_data applied to a table    *)
(* and then to its own result.                                             *)

FilterColumns ==
    <<"full_sq", "life_sq", "kitch_sq", "build_year", "max_floor", "floor",
      "children_preschool", "preschool_quota", "children_school",
      "school_quota", "state">>

GoodRow ==
    [c \in Range(FilterColumns) |->
        CASE c = "full_sq" -> Num(50)
          [] c = "life_sq" -> Num(30)
          [] c = "kitch_sq" -> Num(8)
          [] c = "build_year" -> Num(2000)
          [] c = "max_floor" -> Num(9)
          [] c = "floor" -> Num(3)
          [] c = "state" -> Num(2)
          [] OTHER -> Num(5)]

FilterRows ==
    {[GoodRow EXCEPT !["state"] = Num(s)] : s \in {1, 2, ERR_STATE}}
    \cup {[GoodRow EXCEPT !["life_sq"] = Num(80)],
          [GoodRow EXCEPT !["kitch_sq"] = Num(60)],
          [GoodRow EXCEPT !["full_sq"] = Num(ERR_FULL_SQ)],
          [GoodRow EXCEPT !["full_sq"] = Num(0), !["life_sq"] = Num(0), !["kitch_sq"] = Num(0)],
          [GoodRow EXCEPT !["full_sq"] = Num(1), !["life_sq"] = Num(1), !["kitch_sq"] = Num(1)],
          [GoodRow EXCEPT !["max_floor"] = Num(MAX_MAX_FLOOR + 1)],
          [GoodRow EXCEPT !["max_floor"] = Num(MAX_MAX_FLOOR)],
          [GoodRow EXCEPT !["max_floor"] = Num(0), !["floor"] = Num(0)],
          [GoodRow EXCEPT !["floor"] = Num(10)],
          [GoodRow EXCEPT !["children_preschool"] = Num(-1)],
          [GoodRow EXCEPT !["preschool_quota"] = Num(-1)],
          [GoodRow EXCEPT !["children_school"] = Num(-1)],
          [GoodRow EXCEPT !["school_quota"] = Num(-1)]}
    \cup {[GoodRow EXCEPT !["build_year"] = Num(y)] :
            y \in {MIN_BUILD_YEAR, MIN_BUILD_YEAR + 1, MAX_BUILD_YEAR,
                   MAX_BUILD_YEAR + 1, ERR_BUILD_YEAR}}
    \cup {[GoodRow EXCEPT !["build_year"] = Num(ERR_BUILD_YEAR), !["state"] = Num(ERR_STATE)]}

Idle ==
    /\ exc = "" /\ stages = <<>>
    /\ df_train = NoFrame /\ df_test = NoFrame /\ df_macro = NoFrame
    /\ df_train_lat_lon = NoFrame /\ df_test_lat_lon = NoFrame
    /\ df_train_clean = NoFrame /\ df_test_clean = NoFrame
    /\ df_macro_clean = NoFrame
    /\ files = <<>>
    /\ ret = NoFrame /\ prev = NoFrame /\ calls = 0

InitFilter ==
    /\ pc = "handle_bad_data"
    /\ \E n \in 0..MaxRows : \E d \in [1..n -> FilterRows] :
            arg = Frame(RangeIndex(n), FilterColumns, d)
    /\ Idle

RuleBasedFilter ==
    /\ pc = "handle_bad_data"
    /\ calls < 2
    /\ LET in == IF calls = 0 THEN arg ELSE ret
       IN  IF handle_bad_data_raises(in)
           THEN /\ pc' = "raised"
                /\ exc' = "IndexError"
                /\ UNCHANGED <<ret, prev, calls>>
           ELSE /\ ret' = handle_bad_data(in)
                /\ prev' = ret
                /\ calls' = calls + 1
                /\ UNCHANGED <<pc, exc>>
    /\ UNCHANGED <<stages, df_train, df_test, df_macro, df_train_lat_lon,
                   df_test_lat_lon, df_train_clean, df_test_clean,
                   df_macro_clean, files, arg>>

NextFilter == RuleBasedFilter

SpecFilter == InitFilter /\ [][NextFilter]_vars

----------------------------------------------------------------------------
(* Properties of the Rule-Based Filter. *)

(* The row of df carrying label k (labels are unique). *)
RowAt(df, k) == df.data[CHOOSE i \in 1..NRows(df) : df.index[i] = k]

(* The validity rules a cleaned row is to satisfy. *)
RowIsValid(r) ==
    /\ Le(r["life_sq"], r["full_sq"])
    /\ Le(r["kitch_sq"], r["full_sq"])
    /\ Le(r["floor"], r["max_floor"])
    /\ Gt(r["build_year"], Num(1691)) /\ Le(r["build_year"], Num(2018))
    /\ r["full_sq"] \notin {Num(0), Num(1), Num(5326)}
    /\ r["max_floor"] # Num(0) /\ Le(r["max_floor"], Num(57))
    /\ \A c \in {"children_preschool", "preschool_quota", "children_school",
                 "school_quota"} : Le(Num(0), r[c])

(* The state values of the input rows that break no removal rule. *)
SurvivorStates(df) ==
    LET keep == {i \in 1..NRows(df) : RowIsValid(df.data[i])}
    IN  Pick(Column(df, "state"), keep, 1)

IsAMode(vals, v) ==
    /\ v \in Range(vals)
    /\ \A w \in Range(vals) : Occurrences(vals, w) <= Occurrences(vals, v)

(* C4: the output of handle_bad_data holds no row with state 33 and no row  *)
(* with build_year 20052009, and every surviving row whose input state was *)
(* 33 carries the mode of state over the rows that survived the removals.  *)
C4_NoErroneousValueLeft ==
    calls = 1 =>
        \A i \in 1..NRows(ret) :
            /\ ret.data[i]["state"] # Num(33)
            /\ ret.data[i]["build_year"] # Num(20052009)
            /\ RowAt(arg, ret.index[i])["state"] = Num(33)
                => IsAMode(SurvivorStates(arg), ret.data[i]["state"])

(* C5: an input row whose only anomaly is build_year 20052009 survives the *)
(* removals and is in the output with build_year 2007.                     *)
C5_BuildYearRepaired ==
    calls = 1 =>
        \A i \in 1..NRows(arg) :
            /\ arg.data[i]["build_year"] = Num(20052009)
            /\ RowIsValid([arg.data[i] EXCEPT !["build_year"] = Num(2007)])
            => \E j \in 1..NRows(ret) :
                   /\ ret.index[j] = arg.index[i]
                   /\ ret.data[j]["build_year"] = Num(2007)

C7_Idempotent ==
    calls = 2 => ret = prev

(* C7's case: the first application removed rows and repaired a state, and *)
(* the filter has been applied a second time.                              *)
C7_Witness ==
    /\ calls = 2
    /\ NRows(prev) < NRows(arg)
    /\ \E i \in 1..NRows(prev) :
           /\ RowAt(arg, prev.index[i])["state"] = Num(33)
           /\ prev.data[i]["state"] # Num(33)
    /\ \E i \in 1..NRows(prev) : prev.data[i]["state"] = Num(2)

(* C7's other case: the mode of state is itself 33. *)
C7_WitnessModeIsErr ==
    /\ calls = 2
    /\ \E i \in 1..NRows(prev) : prev.data[i]["state"] = Num(33)

----------------------------------------------------------------------------
(* The paths, lines 145-149, to_csv and merge, lines 165-175. *)

TRAIN_OUT_PATH == "output/train.csv"

TEST_OUT_PATH == "output/test.csv"

MACRO_OUT_PATH == "output/test.csv"

JOIN_TRAIN_MACRO_PATH == "output/train_macro.csv"

JOIN_TEST_MACRO_PATH == "output/test_macro.csv"

(* A cell as to_csv writes it: nothing for a missing value. *)
Field(c) == IF IsNaN(c) THEN Text(<<>>) ELSE c

(* df.to_csv(path, index=False): the header and one line per row, the      *)
(* fields in column order; the row labels are not written.                 *)
to_csv(df) ==
    [header |-> df.columns,
     lines  |-> [i \in Rows(df) |->
                    [k \in 1..Len(df.columns) |-> Field(df.data[i][df.columns[k]])]]]

(* Writing a file replaces what the path held. *)
Write(fs, path, content) ==
    [p \in DOMAIN fs \cup {path} |-> IF p = path THEN content ELSE fs[p]]

(* The rows of right whose label is key, in order. *)
Matches(right, key) ==
    Pick([j \in Rows(right) |-> j], {j \in Rows(right) : right.index[j] = key}, 1)

(* A left row with the columns of right attached: those of row j of right, *)
(* missing values for j = 0.                                               *)
JoinedRow(l, right, j) ==
    [c \in DOMAIN l \cup Range(right.columns) |->
        IF c \in DOMAIN l THEN l[c]
        ELSE IF j = 0 THEN NaN ELSE right.data[j][c]]

(* how="inner": a left row without a match gives no row. *)
JoinedRowsInner(left, right, i) ==
    LET m == Matches(right, left.data[i]["timestamp"])
    IN  [k \in 1..Len(m) |-> <<left.index[i], JoinedRow(left.data[i], right, m[k])>>]

(* how="left": the rows left row i gives, one per match, one with missing  *)
(* values when there is no match; each under the label of the left row.    *)
JoinedRows(left, right, i) ==
    LET m == Matches(right, left.data[i]["timestamp"])
    IN  IF m = <<>> THEN << <<left.index[i], JoinedRow(left.data[i], right, 0)>> >>
        ELSE [k \in 1..Len(m) |-> <<left.index[i], JoinedRow(left.data[i], right, m[k])>>]

RECURSIVE MergeFrom(_, _, _)
MergeFrom(left, right, i) ==
    IF i > NRows(left) THEN <<>>
    ELSE JoinedRows(left, right, i) \o MergeFrom(left, right, i + 1)

(* left.merge(right, how="left", left_on="timestamp", right_index=True),   *)
(* for tables that share no column name.                                   *)
merge(left, right) ==
    LET rows == MergeFrom(left, right, 1)
    IN  Frame([k \in 1..Len(rows) |-> rows[k][1]],
              left.columns \o right.columns,
              [k \in 1..Len(rows) |-> rows[k][2]])

----------------------------------------------------------------------------
(* Frames as read from CSV with index_col="id": the ids count from 1.      *)

IdIndex(n) == [i \in 1..n |-> i]

Unchanged == UNCHANGED <<stages, df_train, df_test, df_macro, df_train_lat_lon,
                         df_test_lat_lon, df_train_clean, df_test_clean,
                         df_macro_clean, files, arg>>

----------------------------------------------------------------------------
(* The Outlier Truncator on its own. *)

TruncValues == {Num(SENTINEL), Num(10), Num(20), Num(1000), NaN}

InitTrunc ==
    /\ pc = "truncate_extreme_values"
    /\ \E n \in 0..MaxRows :
       \E columns \in {<<"full_sq">>, <<"full_sq", "life_sq">>} :
       \E d \in [1..n -> [Range(columns) -> TruncValues]] :
            arg = Frame(IdIndex(n), columns, d)
    /\ Idle

OutlierTruncator ==
    /\ pc = "truncate_extreme_values"
    /\ calls = 0
    /\ ret' = truncate_extreme_values(arg)
    /\ prev' = ret
    /\ calls' = calls + 1
    /\ UNCHANGED <<pc, exc>>
    /\ Unchanged

NextTrunc == OutlierTruncator

SpecTrunc == InitTrunc /\ [][NextTrunc]_vars

(* C3: after truncate_extreme_values, in each configured column that is    *)
(* present, every value lies between the low and the high percentile of    *)
(* the column's input values other than the sentinel -99 (wherever those   *)
(* percentiles are defined: some such value, none of them missing).        *)
C3_ValuesWithinPercentiles ==
    calls = 1 =>
        \A k \in 1..Len(cols) :
            HasColumn(arg, cols[k][1]) =>
                LET kept == WithoutSentinel(Column(arg, cols[k][1]))
                    high == Percentile(kept, cols[k][2])
                    low  == Percentile(kept, cols[k][3])
                IN  IsNum(high) /\ IsNum(low) =>
                        \A i \in Rows(ret) :
                            /\ Le(low, ret.data[i][cols[k][1]])
                            /\ Le(ret.data[i][cols[k][1]], high)

----------------------------------------------------------------------------
(* The Categorical Encoder on its own. *)

(* "B", "a", "ab", "nan" and a missing value. *)
ProductTypes == {Text(<<66>>), Text(<<97>>), Text(<<97, 98>>), Text(NAN_STR), NaN}

(* "a", "b" and a missing value. *)
SubAreas == {Text(<<97>>), Text(<<98>>), NaN}

EncColumns == <<"timestamp", "product_type", "full_sq", "sub_area">>

(* "d1", "d2", ...: one date per row. *)
Timestamp(i) == Text(<<100, 48 + i>>)

InitEnc ==
    /\ pc = "convert_categorical_to_numerical"
    /\ \E n \in 0..MaxRows :
       \E p \in [1..n -> ProductTypes] :
       \E a \in [1..n -> SubAreas] :
            arg = Frame(IdIndex(n), EncColumns,
                        [i \in 1..n |->
                            [c \in Range(EncColumns) |->
                                CASE c = "timestamp" -> Timestamp(i)
                                  [] c = "product_type" -> p[i]
                                  [] c = "sub_area" -> a[i]
                                  [] c = "full_sq" -> Num(50)]])
    /\ Idle

CategoricalEncoder ==
    /\ pc = "convert_categorical_to_numerical"
    /\ calls = 0
    /\ ret' = convert_categorical_to_numerical(arg)
    /\ prev' = ret
    /\ calls' = calls + 1
    /\ UNCHANGED <<pc, exc>>
    /\ Unchanged

NextEnc == CategoricalEncoder

SpecEnc == InitEnc /\ [][NextEnc]_vars

(* C9: in every text column other than timestamp the codes are a bijection *)
(* between the distinct string forms of the input column and 0..n-1, a     *)
(* smaller string getting a smaller code, equal codes exactly for equal    *)
(* strings, decided by the column's own values alone; numeric columns and  *)
(* timestamp are unchanged.                                                *)
C9_CodesAreOrderedBijection ==
    calls = 1 =>
        /\ ret.index = arg.index /\ ret.columns = arg.columns
        /\ \A f \in Range(arg.columns) :
            IF IsObject(arg, f) /\ f # "timestamp"
            THEN LET strs == {AsStr(arg.data[i][f]) : i \in Rows(arg)}
                 IN  /\ {ret.data[i][f] : i \in Rows(ret)}
                            = {Num(k) : k \in 0..(Cardinality(strs) - 1)}
                     /\ \A i, j \in Rows(arg) :
                            /\ (ret.data[i][f] = ret.data[j][f])
                                   <=> (AsStr(arg.data[i][f]) = AsStr(arg.data[j][f]))
                            /\ LexLess(AsStr(arg.data[i][f]), AsStr(arg.data[j][f]))
                                   => Lt(ret.data[i][f], ret.data[j][f])
            ELSE \A i \in Rows(arg) : ret.data[i][f] = arg.data[i][f]

(* C9's case: a column with three distinct strings, one of them the form   *)
(* of a missing value, met in an order that is not the sorted one, beside  *)
(* a second text column encoded on its own.                                *)
C9_Witness ==
    /\ calls = 1
    /\ NRows(arg) = 3
    /\ arg.data[1]["product_type"] = Text(<<97, 98>>)
    /\ arg.data[2]["product_type"] = NaN
    /\ arg.data[3]["product_type"] = Text(<<66>>)
    /\ ret.data[1]["product_type"] = Num(1)
    /\ ret.data[2]["product_type"] = Num(2)
    /\ ret.data[3]["product_type"] = Num(0)
    /\ arg.data[1]["sub_area"] = Text(<<98>>)
    /\ ret.data[1]["sub_area"] = Num(0)

----------------------------------------------------------------------------
(* The Imputer on its own (the data-table variant). *)

ImpValues == {Num(10), Num(40), NaN}

InitImp ==
    /\ pc = "impute_missing_values_data"
    /\ \E n \in 0..MaxRows :
       \E columns \in {<<"timestamp", "full_sq", "life_sq">>,
                       <<"full_sq", "life_sq", "timestamp">>} :
       \E index \in {IdIndex(n), RangeIndex(n)} :
       \E d \in [1..n -> [{"full_sq", "life_sq"} -> ImpValues]] :
            arg = Frame(index, columns,
                        [i \in 1..n |->
                            [c \in Range(columns) |->
                                IF c = "timestamp" THEN Timestamp(i) ELSE d[i][c]]])
    /\ Idle

Imputer ==
    /\ pc = "impute_missing_values_data"
    /\ calls = 0
    /\ IF impute_missing_values_data_raises(arg)
       THEN /\ pc' = "raised"
            /\ exc' = "ValueError"
            /\ UNCHANGED <<ret, prev, calls>>
       ELSE /\ ret' = impute_missing_values_data(arg)
            /\ prev' = ret
            /\ calls' = calls + 1
            /\ UNCHANGED <<pc, exc>>
    /\ Unchanged

NextImp == Imputer

SpecImp == InitImp /\ [][NextImp]_vars

(* C8: impute_missing_values_data returns a table with the rows, the row   *)
(* keys and their order, the columns and their order of its input, each    *)
(* row's timestamp that of the input row, no missing value outside         *)
(* timestamp, and only the cells that were missing changed.                *)
C8_ShapeAndIdentityKept ==
    calls = 1 =>
        /\ NRows(ret) = NRows(arg)
        /\ ret.index = arg.index
        /\ ret.columns = arg.columns
        /\ \A i \in Rows(arg) :
            /\ ret.data[i]["timestamp"] = arg.data[i]["timestamp"]
            /\ \A c \in Range(arg.columns) \ {"timestamp"} :
                /\ ~IsNaN(ret.data[i][c])
                /\ ~IsNaN(arg.data[i][c]) => ret.data[i][c] = arg.data[i][c]


----------------------------------------------------------------------------
(* The Writer and the Joiner, lines 165-175, from cleaned tables of the    *)
(* shape the cleaning functions return.                                    *)

MaxTestRows == 2

MaxMacroRows == 2

(* A cleaned transaction table: labels 0..n-1, timestamp the last column.  *)
CleanTable(columns, ts) ==
    Frame(RangeIndex(Len(ts)), columns,
          [i \in 1..Len(ts) |->
              [c \in Range(columns) |->
                  IF c = "timestamp" THEN Timestamp(ts[i]) ELSE Num(50)]])

(* A cleaned macro table: labelled by timestamp, one numeric column.       *)
MacroTable(keys) ==
    Frame([j \in 1..Len(keys) |-> Timestamp(keys[j])], <<"usdrub">>,
          [j \in 1..Len(keys) |-> [c \in {"usdrub"} |-> Num(30 + j)]])

InitOutput ==
    /\ pc = "to_csv(train)"
    /\ exc = "" /\ stages = <<>>
    /\ df_train = NoFrame /\ df_test = NoFrame /\ df_macro = NoFrame
    /\ df_train_lat_lon = NoFrame /\ df_test_lat_lon = NoFrame
    /\ \E n \in 0..MaxRows : \E ts \in [1..n -> 1..3] :
            df_train_clean = CleanTable(<<"full_sq", "price_doc", "timestamp">>, ts)
    /\ \E n \in 0..MaxTestRows : \E ts \in [1..n -> 1..3] :
            df_test_clean = CleanTable(<<"full_sq", "timestamp">>, ts)
    /\ \E n \in 0..MaxMacroRows : \E keys \in [1..n -> 1..2] :
            df_macro_clean = MacroTable(keys)
    /\ files = <<>>
    /\ arg = NoFrame /\ ret = NoFrame /\ prev = NoFrame /\ calls = 0

OutputUnchanged ==
    UNCHANGED <<exc, stages, df_train, df_test, df_macro, df_train_lat_lon,
                df_test_lat_lon, df_train_clean, df_test_clean, df_macro_clean,
                arg, ret, prev, calls>>

(* Line 165. *)
WriteTrain ==
    /\ pc = "to_csv(train)"
    /\ files' = Write(files, TRAIN_OUT_PATH, to_csv(df_train_clean))
    /\ pc' = "to_csv(test)"
    /\ OutputUnchanged

(* Line 166. *)
WriteTest ==
    /\ pc = "to_csv(test)"
    /\ files' = Write(files, TEST_OUT_PATH, to_csv(df_test_clean))
    /\ pc' = "to_csv(macro)"
    /\ OutputUnchanged

(* Line 167. *)
WriteMacro ==
    /\ pc = "to_csv(macro)"
    /\ files' = Write(files, MACRO_OUT_PATH, to_csv(df_macro_clean))
    /\ pc' = "merge(train)"
    /\ OutputUnchanged

(* Lines 170-172. *)
JoinTrain ==
    /\ pc = "merge(train)"
    /\ files' = Write(files, JOIN_TRAIN_MACRO_PATH,
                      to_csv(merge(df_train_clean, df_macro_clean)))
    /\ pc' = "merge(test)"
    /\ OutputUnchanged

(* Lines 173-175. *)
JoinTest ==
    /\ pc = "merge(test)"
    /\ files' = Write(files, JOIN_TEST_MACRO_PATH,
                      to_csv(merge(df_test_clean, df_macro_clean)))
    /\ pc' = "done"
    /\ OutputUnchanged

NextOutput == WriteTrain \/ WriteTest \/ WriteMacro \/ JoinTrain \/ JoinTest

SpecOutput == InitOutput /\ [][NextOutput]_vars

(* C2: each cleaned table is written to an output location of its own, and *)
(* once the three are written the cleaned-train, cleaned-test and          *)
(* cleaned-macro outputs hold the cleaned train, test and macro tables.    *)
C2_EachOutputHoldsItsTable ==
    pc \in {"merge(train)", "merge(test)", "done"} =>
        /\ files[TRAIN_OUT_PATH] = to_csv(df_train_clean)
        /\ files[TEST_OUT_PATH] = to_csv(df_test_clean)
        /\ files[MACRO_OUT_PATH] = to_csv(df_macro_clean)

(* The fields of a line that belong to the first n columns, and the rest.  *)
LeftPart(line, n) == SubSeq(line, 1, n)

RightPart(line, n) == SubSeq(line, n + 1, Len(line))

(* What the join of left and right is to hold, line by line. *)
JoinKeepsRows(joined, left, right) ==
    LET n == Len(left.columns)
        L == to_csv(left).lines
        R == to_csv(right).lines
        blank == [k \in 1..Len(right.columns) |-> Text(<<>>)]
        keys(i) == {j \in Rows(right) : right.index[j] = left.data[i]["timestamp"]}
        same(i) == {h \in Rows(left) : L[h] = L[i]}
        from(i) == {k \in DOMAIN joined.lines : LeftPart(joined.lines[k], n) = L[i]}
    IN  /\ joined.header = left.columns \o right.columns
        /\ \A k \in DOMAIN joined.lines :
               \E i \in Rows(left) : LeftPart(joined.lines[k], n) = L[i]
        /\ \A i \in Rows(left) :
            /\ from(i) # {}
            /\ Cardinality(keys(i)) <= 1 => Cardinality(from(i)) = Cardinality(same(i))
            /\ \A j \in keys(i) :
                   Cardinality({k \in from(i) : RightPart(joined.lines[k], n) = R[j]})
                     = Cardinality(same(i))
                         * Cardinality({h \in keys(i) : R[h] = R[j]})
            /\ keys(i) = {} =>
                   \A k \in from(i) : RightPart(joined.lines[k], n) = blank
            /\ keys(i) # {} =>
                   \A k \in from(i) :
                       \E j \in keys(i) : RightPart(joined.lines[k], n) = R[j]

(* C10: the join loses no transaction row: every row of the transaction    *)
(* table is in the joined table with its own columns unchanged, exactly    *)
(* once when the macro timestamps are unique; a row whose timestamp is a   *)
(* macro key carries that macro row's values, a row whose timestamp is no  *)
(* macro key carries missing values in every macro column.                 *)
C10_LeftJoinKeepsEveryRow ==
    /\ pc \in {"merge(test)", "done"} =>
           JoinKeepsRows(files[JOIN_TRAIN_MACRO_PATH], df_train_clean, df_macro_clean)
    /\ pc = "done" =>
           JoinKeepsRows(files[JOIN_TEST_MACRO_PATH], df_test_clean, df_macro_clean)

(* C10's case: both joins done; the train table has two rows of one date   *)
(* that is a macro key and a row of a date that is none.                   *)
C10_Witness ==
    /\ pc = "done"
    /\ NRows(df_macro_clean) = 1
    /\ NRows(df_train_clean) = 3
    /\ df_train_clean.data[1]["timestamp"] = df_macro_clean.index[1]
    /\ df_train_clean.data[2]["timestamp"] = df_macro_clean.index[1]
    /\ df_train_clean.data[3]["timestamp"] # df_macro_clean.index[1]
    /\ Len(files[JOIN_TRAIN_MACRO_PATH].lines) = 3
    /\ NRows(df_test_clean) = 1


----------------------------------------------------------------------------
(* The run, lines 151-164: the tables as loaded, then clean_data on train, *)
(* clean_data on test and clean_macro, one function call per step.  The    *)
(* local variable df of clean_data and clean_macro is arg.                 *)

TrainColumns ==
    <<"timestamp", "full_sq", "life_sq", "floor", "max_floor", "build_year",
      "kitch_sq", "state", "product_type", "children_preschool",
      "preschool_quota", "children_school", "school_quota", "price_doc">>

TestColumns == SubSeq(TrainColumns, 1, Len(TrainColumns) - 1)

(* A row of train.csv or test.csv that breaks no rule; "I" as product type. *)
LoadedRow(columns, i) ==
    [c \in Range(columns) |->
        CASE c = "timestamp" -> Timestamp(i)
          [] c = "product_type" -> Text(<<73>>)
          [] c = "price_doc" -> Num(1000)
          [] OTHER -> GoodRow[c]]

(* The ways a loaded row departs from it: a missing life_sq, a life_sq     *)
(* above full_sq, the erroneous state, a build year past the last allowed, *)
(* a missing and another product type ("O").                               *)
RowKinds == {"good", "life_sq_nan", "life_sq_large", "state_33", "build_year_late",
             "product_type_nan", "product_type_O"}

LoadedRowOfKind(columns, i, kind) ==
    CASE kind = "good" -> LoadedRow(columns, i)
      [] kind = "life_sq_nan" -> [LoadedRow(columns, i) EXCEPT !["life_sq"] = NaN]
      [] kind = "life_sq_large" -> [LoadedRow(columns, i) EXCEPT !["life_sq"] = Num(80)]
      [] kind = "state_33" -> [LoadedRow(columns, i) EXCEPT !["state"] = Num(ERR_STATE)]
      [] kind = "build_year_late" ->
            [LoadedRow(columns, i) EXCEPT !["build_year"] = Num(MAX_BUILD_YEAR + 1)]
      [] kind = "product_type_nan" -> [LoadedRow(columns, i) EXCEPT !["product_type"] = NaN]
      [] kind = "product_type_O" ->
            [LoadedRow(columns, i) EXCEPT !["product_type"] = Text(<<79>>)]

(* A loaded table: a first row that breaks no rule, then rows of any kind. *)
LoadedTable(columns, kinds) ==
    Frame(IdIndex(Len(kinds) + 1), columns,
          [i \in 1..(Len(kinds) + 1) |->
              IF i = 1 THEN LoadedRow(columns, 1)
              ELSE LoadedRowOfKind(columns, i, kinds[i - 1])])

(* A lat/lon reference table for ids 1..n, sorted by id. *)
LatLonTable(n) ==
    Frame(IdIndex(n), <<"lat", "lon">>,
          [i \in 1..n |-> [c \in {"lat", "lon"} |-> IF c = "lat" THEN Num(55 + i) ELSE Num(37 + i)]])

At(call, at) == [call |-> call, at |-> at]

Init ==
    /\ pc = At("train", "correct_lon_lat")
    /\ exc = ""
    /\ stages = <<>>
    /\ \E n \in 1..(MaxRows - 1) : \E kinds \in [1..n -> RowKinds] :
            /\ df_train = LoadedTable(TrainColumns, kinds)
            /\ df_train_lat_lon = LatLonTable(n + 1)
    /\ \E n \in 1..(MaxTestRows - 1) : \E kinds \in [1..n -> RowKinds] :
            /\ df_test = LoadedTable(TestColumns, kinds)
            /\ df_test_lat_lon = LatLonTable(n + 1)
    /\ \E keys \in [1..MaxMacroRows -> 1..2] :
            df_macro = [MacroTable(keys) EXCEPT !.data[1]["usdrub"] = NaN]
    /\ df_train_clean = NoFrame /\ df_test_clean = NoFrame /\ df_macro_clean = NoFrame
    /\ files = <<>>
    /\ arg = NoFrame /\ ret = NoFrame /\ prev = NoFrame /\ calls = 0

(* The functions the module defines, lines 16-136. *)
ModuleNames ==
    {"correct_lon_lat", "truncate_extreme_values", "convert_categorical_to_numerical",
     "impute_missing_values_data", "impute_missing_values_macro", "handle_bad_data",
     "clean_data", "clean_macro"}

Raise(name) ==
    /\ exc' = name
    /\ pc' = At(pc.call, "raised")

(* arg is the table df_train, df_test or df_macro names until the imputer  *)
(* returns a new one: what a function does to it in place shows in both.   *)
InPlace(df) ==
    /\ arg' = df
    /\ df_train' = IF pc.call = "train" THEN df ELSE df_train
    /\ df_test' = IF pc.call = "test" THEN df ELSE df_test
    /\ df_macro' = IF pc.call = "macro" THEN df ELSE df_macro

RunUnchanged == UNCHANGED <<df_train_lat_lon, df_test_lat_lon, files, ret, prev, calls>>

(* Lines 162-163 and 123. *)
GeoCorrector ==
    /\ pc.at = "correct_lon_lat"
    /\ InPlace(IF pc.call = "train" THEN correct_lon_lat(df_train, df_train_lat_lon)
               ELSE correct_lon_lat(df_test, df_test_lat_lon))
    /\ stages' = Append(stages, <<pc.call, "correct_lon_lat">>)
    /\ pc' = At(pc.call, "truncate_extreme_values")
    /\ UNCHANGED <<exc, df_train_clean, df_test_clean, df_macro_clean>>
    /\ RunUnchanged

(* Line 124. *)
Truncator ==
    /\ pc.at = "truncate_extreme_values"
    /\ InPlace(truncate_extreme_values(arg))
    /\ stages' = Append(stages, <<pc.call, "truncate_extreme_values">>)
    /\ pc' = At(pc.call, "convert_categorical_to_numerical")
    /\ UNCHANGED <<exc, df_train_clean, df_test_clean, df_macro_clean>>
    /\ RunUnchanged

(* Lines 125 and 134. *)
Encoder ==
    /\ pc.at = "convert_categorical_to_numerical"
    /\ InPlace(convert_categorical_to_numerical(arg))
    /\ stages' = Append(stages, <<pc.call, "convert_categorical_to_numerical">>)
    /\ pc' = At(pc.call, IF pc.call = "macro" THEN "impute_missing_values_macro"
                         ELSE "impute_missing_values_data")
    /\ UNCHANGED <<exc, df_train_clean, df_test_clean, df_macro_clean>>
    /\ RunUnchanged

(* Lines 126 and 135-136. *)
ImputerStep ==
    /\ pc.at \in {"impute_missing_values_data", "impute_missing_values_macro"}
    /\ stages' = Append(stages, <<pc.call, pc.at>>)
    /\ IF pc.call = "macro"
       THEN IF impute_raises(arg)
            THEN /\ Raise("ValueError")
                 /\ UNCHANGED <<arg, df_macro_clean>>
            ELSE /\ arg' = impute_missing_values_macro(arg)
                 /\ df_macro_clean' = impute_missing_values_macro(arg)
                 /\ pc' = At("module", "to_csv")
                 /\ UNCHANGED exc
       ELSE IF impute_missing_values_data_raises(arg)
            THEN /\ Raise("ValueError")
                 /\ UNCHANGED <<arg, df_macro_clean>>
            ELSE /\ arg' = impute_missing_values_data(arg)
                 /\ pc' = At(pc.call, "handle_bad_data")
                 /\ UNCHANGED <<exc, df_macro_clean>>
    /\ UNCHANGED <<df_train, df_test, df_macro, df_train_clean, df_test_clean>>
    /\ RunUnchanged

(* Lines 127-128 and the assignments of lines 162 and 163. *)
FilterStep ==
    /\ pc.at = "handle_bad_data"
    /\ stages' = Append(stages, <<pc.call, "handle_bad_data">>)
    /\ IF handle_bad_data_raises(arg)
       THEN /\ Raise("IndexError")
            /\ UNCHANGED <<arg, df_train_clean, df_test_clean>>
       ELSE /\ arg' = handle_bad_data(arg)
            /\ df_train_clean' = IF pc.call = "train" THEN handle_bad_data(arg)
                                 ELSE df_train_clean
            /\ df_test_clean' = IF pc.call = "test" THEN handle_bad_data(arg)
                                ELSE df_test_clean
            /\ pc' = IF pc.call = "train" THEN At("test", "correct_lon_lat")
                     ELSE At("macro", "truncate_extreme_value")
            /\ UNCHANGED exc
    /\ UNCHANGED <<df_train, df_test, df_macro, df_macro_clean>>
    /\ RunUnchanged

(* Lines 164 and 132-133: clean_macro looks up the name                    *)
(* truncate_extreme_value, which the module does not define.               *)
CleanMacro ==
    /\ pc.at = "truncate_extreme_value"
    /\ IF "truncate_extreme_value" \notin ModuleNames
       THEN /\ Raise("NameError")
            /\ UNCHANGED <<arg, stages, df_train, df_test, df_macro>>
       ELSE /\ InPlace(truncate_extreme_values(df_macro))
            /\ stages' = Append(stages, <<pc.call, "truncate_extreme_values">>)
            /\ pc' = At("macro", "convert_categorical_to_numerical")
            /\ UNCHANGED exc
    /\ UNCHANGED <<df_train_clean, df_test_clean, df_macro_clean>>
    /\ RunUnchanged

Next ==
    \/ GeoCorrector
    \/ Truncator
    \/ Encoder
    \/ ImputerStep
    \/ FilterStep
    \/ CleanMacro

Spec == Init /\ [][Next]_vars

(* The stages in the order the run is to enter them. *)
CleaningStages ==
    <<"correct_lon_lat", "truncate_extreme_values", "convert_categorical_to_numerical",
      "impute_missing_values_data", "handle_bad_data">>

ExpectedStages ==
    [i \in 1..5 |-> <<"train", CleaningStages[i]>>]
    \o [i \in 1..5 |-> <<"test", CleaningStages[i]>>]
    \o << <<"macro", "truncate_extreme_values">>,
          <<"macro", "convert_categorical_to_numerical">>,
          <<"macro", "impute_missing_values_macro">> >>

(* C1: on input files that hold every referenced column the run enters the *)
(* stages in the stated order and no stage aborts it (so that it goes on   *)
(* to the end, where the five outputs are written).                        *)
C1_RunsInOrderToTheEnd ==
    /\ Len(stages) <= Len(ExpectedStages)
    /\ stages = SubSeq(ExpectedStages, 1, Len(stages))
    /\ exc = ""
    /\ pc.at # "raised"


=============================================================================
